---- MODULE Spec2Model ----
(***************************************************************************)
(* A model of the bounded-wait and retry utilities of the Parabank test   *)
(* harness: WaitHelpers.wait_for_condition and the retry_on_failure       *)
(* decorator of src/src/utils/helpers.py.                                  *)
(*                                                                         *)
(* Time.  The clock `now` counts ticks of 1/TicksPerSecond second, so     *)
(* time.time() is now/TicksPerSecond seconds.  `timeout` is an integer    *)
(* number of milliseconds, as in the code; `poll_interval` and `delay`    *)
(* are durations in seconds, held as a number of ticks.                   *)
(***************************************************************************)
EXTENDS Integers, Sequences, FiniteSets, TLC

\* ------------------------------------------------------------------ bounds
TicksPerSecond == 4      \* clock resolution: ticks per second
TimeoutStep == 125       \* timeouts tried are multiples of this many ms
MaxTimeoutSteps == 6     \* largest timeout is MaxTimeoutSteps * TimeoutStep ms
MaxPoll == 3             \* largest poll_interval, in ticks
MaxStart == 1            \* largest clock value at the start of a call
MaxEvalDur == 2          \* longest predicate / operation invocation, in ticks
MaxOversleep == 1        \* longest overshoot of one time.sleep, in ticks
MaxMaxAttempts == 3      \* largest max_attempts
MaxDelay == 2            \* largest delay, in ticks
MaxEvals == 5            \* evaluations a call is followed for (never reached)

\* --------------------------------------------------------- program constants
MsPerSecond == 1000      \* timeout_seconds = timeout / 1000

\* ------------------------------------------------------------- input domains
Timeouts == { i * TimeoutStep : i \in -1..MaxTimeoutSteps }
PollIntervals == 1..MaxPoll
MaxAttemptsValues == -1..MaxMaxAttempts
Delays == 0..MaxDelay

\* The exception classes the predicate / operation may raise, and the part of
\* Python's class hierarchy they live in.
RaisedKinds == {"ConnectionError", "TimeoutError", "ValueError"}
Bases(c) ==
    CASE c = "ConnectionError" -> {"ConnectionError", "OSError", "Exception"}
      [] c = "TimeoutError"    -> {"TimeoutError", "OSError", "Exception"}
      [] c = "ValueError"      -> {"ValueError", "Exception"}
      [] c = "TypeError"       -> {"TypeError", "Exception"}
      [] c = "OSError"         -> {"OSError", "Exception"}
      [] OTHER                 -> {"Exception"}

\* isinstance(e, classes) for an exception e of class `kind` and a tuple of classes
IsInstance(kind, classes) == Bases(kind) \cap classes # {}

\* The `exceptions` tuples a caller decorates with; (Exception,) is the default.
ExceptionTuples ==
    { {"Exception"}, {"ConnectionError"}, {"OSError"},
      {"ConnectionError", "ValueError"}, {} }

Values == {"r1", "r2"}                       \* results of the wrapped function
NoError == [kind |-> "none", attempt |-> 0]

\* Outcomes of one predicate evaluation / one invocation of the function.
PredOutcomes ==
    { [t |-> "true"], [t |-> "false"] } \cup { [t |-> "raise", kind |-> k] : k \in RaisedKinds }
\* The condition_func argument: a callable, or None (calling None raises
\* TypeError at the call expression, inside the try block).
ConditionFuncs == {"callable", "None"}
EvalOutcomes(cf) ==
    IF cf = "None" THEN { [t |-> "raise", kind |-> "TypeError"] } ELSE PredOutcomes
OpOutcomes ==
    { [t |-> "ok", value |-> v] : v \in Values } \cup { [t |-> "raise", kind |-> k] : k \in RaisedKinds }

VARIABLES
    call,          \* which utility this behaviour runs: "wait" or "retry"
    now,           \* the clock, in ticks
    \* ---- wait_for_condition
    condition_func,\* argument: "callable" or "None"
    timeout,       \* argument, milliseconds
    poll_interval, \* argument, seconds (in ticks)
    start_time,    \* local start_time (in ticks)
    pc,            \* "idle", "check", "eval", "sleep", "done", "raised"
    result,        \* "none" until the call returns "True" or "False"
    wraised,       \* class of the exception that left the call, or "none"
    evals,         \* predicate evaluations so far
    sleeps,        \* time.sleep calls so far
    trueAt,        \* index of the first evaluation that returned truthy, 0 if none
    raises,        \* number of evaluations that raised
    lastOut,       \* outcome of the latest evaluation ("none" before the first)
    lastCheckAt,   \* clock when the loop condition last held
    lastEvalDur,   \* duration of the latest evaluation
    lastOver,      \* overshoot of the latest sleep
    instant,       \* every evaluation so far took no time
    punctual,      \* every sleep so far lasted exactly poll_interval
    \* ---- retry_on_failure wrapper
    max_attempts,  \* decorator argument
    delay,         \* decorator argument, seconds (in ticks)
    exceptions,    \* decorator argument, a set of classes
    attempt,       \* loop variable of `for attempt in range(max_attempts)`
    rpc,           \* "idle", "loop", "call", "sleep", "returned", "raised"
    rhist,         \* outcomes of the invocations of func so far
    rsleeps,       \* time.sleep calls so far
    sleptAfter,    \* set of attempt numbers (1-based) a sleep followed
    retval,        \* value returned to the caller ("unset" until it returns)
    raised,        \* error raised to the caller (NoError until it raises)
    \* ---- BaseAPI / PublicAPI get and post
    api_client,    \* "BaseAPI" or "PublicAPI"
    api_method,    \* "get" or "post"
    apc,           \* "idle", "request", "status", "returned", "raised"
    api_status,    \* status code of the response received, 0 before it
    api_ret,       \* status code of the response returned to the caller, 0 if none
    api_exc,       \* class of the exception raised to the caller, or "none"
    \* ---- PageHelpers.safe_click / safe_fill
    helper,        \* "safe_click" or "safe_fill"
    clear_first,   \* argument of safe_fill
    ptimeout,      \* argument timeout: None (not given) or milliseconds
    eff_timeout,   \* local timeout after `timeout or self.default_timeout`
    ppc,           \* "idle", "run", "returned", "raised"
    pdone,         \* driver steps that have succeeded, in order
    pfailed,       \* driver step that raised, or "none"
    pret,          \* "none" until the helper returns "True" or "False"
    pexc,          \* class of the exception that left the helper, or "none"
    \* ---- concurrent calls
    th,            \* per thread: arguments and local variables of its call
    \* ---- ConfigManager._load_config
    file_exists,   \* self.config_file.exists()
    file_doc,      \* what yaml.safe_load returns for the file
    env,           \* os.environ: for each variable, whether set and its string
    config,        \* self.config, a mapping from keys to values
    env_overrides, \* local env_overrides, a mapping from keys to values
    cpc,           \* "idle", "load", "env", "update", "returned", "raised"
    ckey,          \* position of the for loop in env_overrides.items()
    cexc           \* class of the exception that left the call, or "none"

wvars == << condition_func, timeout, poll_interval, start_time, pc, result, wraised, evals, sleeps,
            trueAt, raises, lastOut, lastCheckAt, lastEvalDur, lastOver,
            instant, punctual >>
rvars == << max_attempts, delay, exceptions, attempt, rpc, rhist, rsleeps,
            sleptAfter, retval, raised >>
avars == << api_client, api_method, apc, api_status, api_ret, api_exc >>
pvars == << helper, clear_first, ptimeout, eff_timeout, ppc, pdone, pfailed, pret, pexc >>
cvars == << file_exists, file_doc, env, config, env_overrides, cpc, ckey, cexc >>
vars == << call, now, wvars, rvars, avars, pvars, th, cvars >>

\* Threads that call the utilities at the same time, and what a thread's frame
\* holds before its call starts.
Threads == {"t1", "t2"}
NoOutcome == [t |-> "none"]
NewThread(kind, tmo, poll, ma, de, ex) ==
    [ kind |-> kind, pc |-> "new", began |-> 0, until |-> 0, pending |-> NoOutcome,
      n |-> 0, slept |-> 0, result |-> "none", err |-> "none", retAt |-> 0,
      timeout |-> tmo, poll_interval |-> poll, start_time |-> 0, checkAt |-> 0,
      max_attempts |-> ma, delay |-> de, exceptions |-> ex, attempt |-> 0 ]
ThreadsIdle == th = [t \in Threads |-> NewThread("none", 0, 1, 0, 0, {})]

\* Python values held by the configuration: None, a str, a bool or an int.
NoneValue == [ty |-> "none", s |-> "", b |-> FALSE, i |-> 0]
StrValue(x) == [ty |-> "str", s |-> x, b |-> FALSE, i |-> 0]
BoolValue(x) == [ty |-> "bool", s |-> "", b |-> x, i |-> 0]
IntValue(x) == [ty |-> "int", s |-> "", b |-> FALSE, i |-> x]
EmptyDict == [k \in {} |-> NoneValue]
Unset == [set |-> FALSE, s |-> ""]
NoneDoc == [kind |-> "none", map |-> EmptyDict]

ConfigIdle ==
    /\ file_exists = FALSE /\ file_doc = NoneDoc
    /\ env = [v \in {} |-> Unset]
    /\ config = EmptyDict /\ env_overrides = EmptyDict
    /\ cpc = "idle" /\ ckey = 0 /\ cexc = "none"

ApiIdle ==
    /\ api_client = "BaseAPI" /\ api_method = "get" /\ apc = "idle"
    /\ api_status = 0 /\ api_ret = 0 /\ api_exc = "none"

PageIdle ==
    /\ helper = "safe_click" /\ clear_first = TRUE
    /\ ptimeout = [given |-> FALSE, ms |-> 0]
    /\ eff_timeout = 0 /\ ppc = "idle" /\ pdone = << >> /\ pfailed = "none"
    /\ pret = "none" /\ pexc = "none"

\* ------------------------------------------------------ wait_for_condition

\* `while time.time() - start_time < timeout_seconds`, timeout_seconds = timeout / 1000:
\* elapsed/TicksPerSecond < timeout/MsPerSecond, cross-multiplied.
LoopGuardInclusive(elapsed, tmo) == elapsed * MsPerSecond <= tmo * TicksPerSecond
LoopGuardSeconds(elapsed, tmo) == elapsed < tmo * TicksPerSecond
LoopGuardNoClock(elapsed, tmo) == 0 * elapsed * MsPerSecond < tmo * TicksPerSecond
LoopGuard(elapsed, tmo) == elapsed * MsPerSecond < tmo * TicksPerSecond

\* time.sleep(secs) returns after at least secs seconds
SleepTwice(secs, over) == 2 * secs + over
SleepTicks(secs, over) == secs + over

\* `except Exception as e` in the polling loop
NarrowCatchClass == {"ValueError"}
WaitCatchClass == {"Exception"}

WaitIdle ==
    /\ pc = "idle" /\ result = "none" /\ wraised = "none" /\ evals = 0 /\ sleeps = 0
    /\ trueAt = 0 /\ raises = 0 /\ lastOut = "none" /\ lastCheckAt = 0
    /\ lastEvalDur = 0 /\ lastOver = 0 /\ timeout = 0 /\ poll_interval = 1
    /\ start_time = 0 /\ condition_func = "callable"
    /\ instant = TRUE /\ punctual = TRUE

RetryIdle ==
    /\ rpc = "idle" /\ attempt = 0 /\ rhist = << >> /\ rsleeps = 0 /\ sleptAfter = {}
    /\ retval = "unset" /\ raised = NoError /\ max_attempts = 0 /\ delay = 0
    /\ exceptions = {}

\* A call of wait_for_condition(condition_func, timeout, poll_interval) has
\* executed `start_time = time.time()` and `timeout_seconds = timeout / 1000`.
InitWait ==
    /\ call = "wait"
    /\ now \in 0..MaxStart
    /\ condition_func \in ConditionFuncs
    /\ timeout \in Timeouts
    /\ poll_interval \in PollIntervals
    /\ start_time = now
    /\ pc = "check"
    /\ result = "none" /\ wraised = "none" /\ evals = 0 /\ sleeps = 0
    /\ trueAt = 0 /\ raises = 0 /\ lastOut = "none" /\ lastCheckAt = now
    /\ lastEvalDur = 0 /\ lastOver = 0
    /\ instant = TRUE /\ punctual = TRUE
    /\ RetryIdle /\ ApiIdle /\ PageIdle /\ ThreadsIdle /\ ConfigIdle

\* The loop condition: enter the body, or fall out and `return False`.
WaitCheckReturnsTrue ==
    /\ call = "wait" /\ pc = "check"
    /\ IF LoopGuard(now - start_time, timeout)
         THEN /\ pc' = "eval"
              /\ lastCheckAt' = now
              /\ result' = result
         ELSE /\ pc' = "done"
              /\ result' = "True"
              /\ lastCheckAt' = lastCheckAt
    /\ UNCHANGED << call, th, cvars, now, condition_func, timeout, poll_interval, start_time,
                    wraised, evals, sleeps, trueAt, raises, lastOut, lastEvalDur,
                    lastOver, instant, punctual, rvars, avars, pvars >>
WaitCheck ==
    /\ call = "wait" /\ pc = "check"
    /\ IF LoopGuard(now - start_time, timeout)
         THEN /\ pc' = "eval"
              /\ lastCheckAt' = now
              /\ result' = result
         ELSE /\ pc' = "done"
              /\ result' = "False"
              /\ lastCheckAt' = lastCheckAt
    /\ UNCHANGED << call, th, cvars, now, condition_func, timeout, poll_interval, start_time,
                    wraised, evals, sleeps, trueAt, raises, lastOut, lastEvalDur,
                    lastOver, instant, punctual, rvars, avars, pvars >>

\* One evaluation `if condition_func(): return True` inside try/except Exception,
\* taking d ticks and ending with outcome out.
WaitEvalSleepFirst(out, d) ==
    /\ evals' = evals + 1
    /\ lastOut' = out.t
    /\ lastEvalDur' = d
    /\ instant' = (instant /\ d = 0)
    /\ punctual' = punctual
    /\ trueAt' = IF out.t = "true" /\ trueAt = 0 THEN evals + 1 ELSE trueAt
    /\ raises' = IF out.t = "raise" THEN raises + 1 ELSE raises
    /\ now' = now + d + poll_interval
    /\ sleeps' = sleeps + 1
    /\ lastOver' = 0
    /\ IF out.t = "true"
         THEN pc' = "done" /\ result' = "True" /\ wraised' = wraised
         ELSE IF out.t = "raise" /\ ~IsInstance(out.kind, WaitCatchClass)
                THEN pc' = "raised" /\ wraised' = out.kind /\ result' = result
                ELSE pc' = "check" /\ result' = result /\ wraised' = wraised
WaitEvalPreempted(out, d) ==
    /\ evals' = evals + 1
    /\ lastOut' = out.t
    /\ lastEvalDur' = d
    /\ instant' = (instant /\ d = 0)
    /\ punctual' = punctual
    /\ trueAt' = IF out.t = "true" /\ trueAt = 0 THEN evals + 1 ELSE trueAt
    /\ raises' = IF out.t = "raise" THEN raises + 1 ELSE raises
    /\ now' = now + d
    /\ sleeps' = sleeps
    /\ lastOver' = lastOver
    /\ IF ~LoopGuard(now + d - start_time, timeout)
         THEN pc' = "done" /\ result' = "False" /\ wraised' = wraised
         ELSE IF out.t = "true"
                THEN pc' = "done" /\ result' = "True" /\ wraised' = wraised
                ELSE pc' = "sleep" /\ result' = result /\ wraised' = wraised
WaitEvalChecksDeadline(out, d) ==
    /\ evals' = evals + 1
    /\ lastOut' = out.t
    /\ lastEvalDur' = d
    /\ instant' = (instant /\ d = 0)
    /\ punctual' = punctual
    /\ trueAt' = IF out.t = "true" /\ trueAt = 0 THEN evals + 1 ELSE trueAt
    /\ raises' = IF out.t = "raise" THEN raises + 1 ELSE raises
    /\ now' = now + d
    /\ sleeps' = sleeps
    /\ lastOver' = lastOver
    /\ IF out.t = "true"
         THEN pc' = "done" /\ result' = "True" /\ wraised' = wraised
         ELSE IF ~LoopGuard(now + d - start_time, timeout)
                THEN pc' = "done" /\ result' = "False" /\ wraised' = wraised
                ELSE pc' = "sleep" /\ result' = result /\ wraised' = wraised
WaitEvalStep(out, d) ==
    /\ evals' = evals + 1
    /\ lastOut' = out.t
    /\ lastEvalDur' = d
    /\ instant' = (instant /\ d = 0)
    /\ punctual' = punctual
    /\ trueAt' = IF out.t = "true" /\ trueAt = 0 THEN evals + 1 ELSE trueAt
    /\ raises' = IF out.t = "raise" THEN raises + 1 ELSE raises
    /\ now' = now + d
    /\ sleeps' = sleeps
    /\ lastOver' = lastOver
    /\ IF out.t = "true"
         THEN pc' = "done" /\ result' = "True" /\ wraised' = wraised
         ELSE IF out.t = "raise" /\ ~IsInstance(out.kind, WaitCatchClass)
                THEN pc' = "raised" /\ wraised' = out.kind /\ result' = result
                ELSE pc' = "sleep" /\ result' = result /\ wraised' = wraised

WaitEval ==
    /\ call = "wait" /\ pc = "eval"
    /\ evals < MaxEvals
    /\ \E out \in EvalOutcomes(condition_func), d \in 0..MaxEvalDur :
         WaitEvalStep(out, d)
    /\ UNCHANGED << call, th, cvars, condition_func, timeout, poll_interval, start_time,
                    lastCheckAt, rvars, avars, pvars >>

\* `time.sleep(poll_interval)` at the end of the loop body.
WaitSleep ==
    /\ call = "wait" /\ pc = "sleep"
    /\ \E over \in 0..MaxOversleep :
         /\ now' = now + SleepTicks(poll_interval, over)
         /\ lastOver' = over
         /\ punctual' = (punctual /\ over = 0)
    /\ sleeps' = sleeps + 1
    /\ pc' = "check"
    /\ UNCHANGED << call, th, cvars, condition_func, timeout, poll_interval, start_time, result,
                    wraised, evals, trueAt, raises, lastOut, lastCheckAt, lastEvalDur,
                    instant, rvars, avars, pvars >>

\* ------------------------------------------------- retry_on_failure wrapper

\* `for attempt in range(max_attempts)`: the loop has another iteration
InRangeInclusive(i, n) == i <= n
InRange(i, n) == i < n

\* `except exceptions as e`: the handler matches an exception of class kind
CatchAll(kind, excs) == TRUE
IsRetryable(kind, excs) == IsInstance(kind, excs)

\* `if attempt == max_attempts - 1`
IsLastAttemptOff(i, n) == i = n
IsLastAttempt(i, n) == i = n - 1

\* The failure of invocation i, as an error object: its class and the attempt
\* (1-based) that raised it.
ErrorOf(hist, i) == [kind |-> hist[i].kind, attempt |-> i]

\* The bare `raise` of the handler re-raises the exception being handled, which
\* is the one the latest invocation raised.
FirstError(hist) == ErrorOf(hist, 1)
CurrentError(hist) == ErrorOf(hist, Len(hist))

\* A call of the wrapper of a function decorated with
\* retry_on_failure(max_attempts, delay, exceptions) is about to start its loop.
InitRetry ==
    /\ call = "retry"
    /\ now \in 0..MaxStart
    /\ max_attempts \in MaxAttemptsValues
    /\ delay \in Delays
    /\ exceptions \in ExceptionTuples
    /\ attempt = 0
    /\ rpc = "loop"
    /\ rhist = << >> /\ rsleeps = 0 /\ sleptAfter = {}
    /\ retval = "unset" /\ raised = NoError
    /\ WaitIdle /\ ApiIdle /\ PageIdle /\ ThreadsIdle /\ ConfigIdle

\* The head of the for loop: next iteration, or fall out and `return None`.
RetryLoop ==
    /\ call = "retry" /\ rpc = "loop"
    /\ IF InRange(attempt, max_attempts)
         THEN rpc' = "call" /\ retval' = retval
         ELSE rpc' = "returned" /\ retval' = "None"
    /\ UNCHANGED << call, th, cvars, now, wvars, avars, pvars, max_attempts, delay, exceptions,
                    attempt, rhist, rsleeps, sleptAfter, raised >>

\* One iteration's `try: return func(*args, **kwargs)` with its except clause up
\* to the sleep; the invocation takes d ticks and ends with outcome out.
RetryCallNoReturn(out, d) ==
    /\ rhist' = Append(rhist, out)
    /\ now' = now + d
    /\ IF out.t = "ok"
         THEN rpc' = "loop" /\ attempt' = attempt + 1
              /\ retval' = retval /\ raised' = raised
         ELSE /\ attempt' = attempt
              /\ retval' = retval
              /\ IF IsRetryable(out.kind, exceptions)
                   THEN IF IsLastAttempt(attempt, max_attempts)
                          THEN rpc' = "raised" /\ raised' = CurrentError(rhist')
                          ELSE rpc' = "sleep" /\ raised' = raised
                   ELSE rpc' = "raised" /\ raised' = ErrorOf(rhist', Len(rhist'))
RetryCallStep(out, d) ==
    /\ rhist' = Append(rhist, out)
    /\ now' = now + d
    /\ attempt' = attempt
    /\ IF out.t = "ok"
         THEN rpc' = "returned" /\ retval' = out.value /\ raised' = raised
         ELSE /\ retval' = retval
              /\ IF IsRetryable(out.kind, exceptions)
                   THEN IF IsLastAttempt(attempt, max_attempts)
                          THEN rpc' = "raised" /\ raised' = CurrentError(rhist')
                          ELSE rpc' = "sleep" /\ raised' = raised
                   ELSE rpc' = "raised" /\ raised' = ErrorOf(rhist', Len(rhist'))

RetryCall ==
    /\ call = "retry" /\ rpc = "call"
    /\ \E out \in OpOutcomes, d \in 0..MaxEvalDur : RetryCallStep(out, d)
    /\ UNCHANGED << call, th, cvars, wvars, avars, pvars, max_attempts, delay, exceptions, rsleeps, sleptAfter >>

\* `time.sleep(delay)` at the end of the handler, then the loop's next index.
RetrySleep ==
    /\ call = "retry" /\ rpc = "sleep"
    /\ \E over \in 0..MaxOversleep : now' = now + SleepTicks(delay, over)
    /\ rsleeps' = rsleeps + 1
    /\ sleptAfter' = sleptAfter \cup {Len(rhist)}
    /\ attempt' = attempt + 1
    /\ rpc' = "loop"
    /\ UNCHANGED << call, th, cvars, wvars, avars, pvars, max_attempts, delay, exceptions, rhist, retval, raised >>

\* ------------------------------------------------- BaseAPI and PublicAPI

ApiClients == {"BaseAPI", "PublicAPI"}
ApiMethods == {"get", "post"}

\* Status codes a server answers with (the session follows redirects; a 304 or
\* a 3xx without Location reaches the caller as it is).
Statuses == {200, 201, 204, 304, 400, 401, 404, 500, 503}
TransportErrors == {"ConnectionError", "TimeoutError"}

\* Response.raise_for_status() raises HTTPError for a client or server error
\* status, 400 <= status < 600, and does nothing otherwise.
RaisesForStatus(status) == 400 <= status /\ status < 600

\* Each of the four methods calls response.raise_for_status() before returning.
PublicPostUnchecked(client, method) == ~(client = "PublicAPI" /\ method = "post")
ChecksStatus(client, method) ==
    CASE client = "BaseAPI" /\ method = "get" -> TRUE
      [] client = "BaseAPI" /\ method = "post" -> TRUE
      [] client = "PublicAPI" /\ method = "get" -> TRUE
      [] client = "PublicAPI" /\ method = "post" -> TRUE

\* A call api.get(endpoint, ...) or api.post(endpoint, ...) has built its url.
InitApi ==
    /\ call = "api"
    /\ now = 0
    /\ api_client \in ApiClients
    /\ api_method \in ApiMethods
    /\ apc = "request"
    /\ api_status = 0 /\ api_ret = 0 /\ api_exc = "none"
    /\ WaitIdle /\ RetryIdle /\ PageIdle /\ ThreadsIdle /\ ConfigIdle

\* `response = self.session.get(...)` / `self.session.post(...)`: a response
\* arrives, or the transport fails and its exception leaves the method.
ApiRequest ==
    /\ call = "api" /\ apc = "request"
    /\ \/ \E st \in Statuses :
            api_status' = st /\ apc' = "status" /\ api_exc' = api_exc
       \/ \E k \in TransportErrors :
            api_exc' = k /\ apc' = "raised" /\ api_status' = api_status
    /\ UNCHANGED << call, th, cvars, now, wvars, rvars, pvars, api_client, api_method, api_ret >>

\* `response.raise_for_status()` then `return response`.
ApiReturn ==
    /\ call = "api" /\ apc = "status"
    /\ IF ChecksStatus(api_client, api_method) /\ RaisesForStatus(api_status)
         THEN apc' = "raised" /\ api_exc' = "HTTPError" /\ api_ret' = api_ret
         ELSE apc' = "returned" /\ api_ret' = api_status /\ api_exc' = api_exc
    /\ UNCHANGED << call, th, cvars, now, wvars, rvars, pvars, api_client, api_method, api_status >>

\* ------------------------------------- PageHelpers.safe_click / safe_fill

PageHelperNames == {"safe_click", "safe_fill"}
NoneArg == [given |-> FALSE, ms |-> 0]
TimeoutArgs == { NoneArg, [given |-> TRUE, ms |-> 0], [given |-> TRUE, ms |-> 5000] }
DefaultTimeout == 30000

\* `timeout = timeout or self.default_timeout`: None and 0 are falsy
EffectiveTimeout(t) == IF ~t.given \/ t.ms = 0 THEN DefaultTimeout ELSE t.ms

\* The driver calls of the try block, in order.
DriverSteps(h, clear) ==
    IF h = "safe_click"
      THEN << "locator", "wait_for", "click" >>
      ELSE << "locator", "wait_for" >>
           \o (IF clear THEN << "clear" >> ELSE << >>)
           \o << "fill" >>

\* `except Exception as e` of the two helpers
PageCatchTimeoutOnly == {"TimeoutError"}
PageCatchClass == {"Exception"}

\* A call of safe_click(selector, timeout) or safe_fill(selector, value,
\* timeout, clear_first) has computed its effective timeout.
InitPage ==
    /\ call = "page"
    /\ now = 0
    /\ helper \in PageHelperNames
    /\ clear_first \in (IF helper = "safe_fill" THEN BOOLEAN ELSE {TRUE})
    /\ ptimeout \in TimeoutArgs
    /\ eff_timeout = EffectiveTimeout(ptimeout)
    /\ ppc = "run"
    /\ pdone = << >> /\ pfailed = "none" /\ pret = "none" /\ pexc = "none"
    /\ WaitIdle /\ RetryIdle /\ ApiIdle /\ ThreadsIdle /\ ConfigIdle

\* The next driver call of the try block: it succeeds, or it raises and the
\* except clause returns False; after the last call, `return True`.
PageStepTaken(ok, kind) ==
    LET steps == DriverSteps(helper, clear_first)
        i == Len(pdone) + 1
    IN  IF i > Len(steps)
          THEN /\ ppc' = "returned" /\ pret' = "True"
               /\ UNCHANGED << pdone, pfailed, pexc >>
          ELSE IF ok
                 THEN /\ pdone' = Append(pdone, steps[i])
                      /\ UNCHANGED << ppc, pfailed, pret, pexc >>
                 ELSE /\ pfailed' = steps[i]
                      /\ pdone' = pdone
                      /\ IF IsInstance(kind, PageCatchClass)
                           THEN ppc' = "returned" /\ pret' = "False" /\ pexc' = pexc
                           ELSE ppc' = "raised" /\ pexc' = kind /\ pret' = pret

PageStep ==
    /\ call = "page" /\ ppc = "run"
    /\ \E ok \in BOOLEAN, kind \in RaisedKinds : PageStepTaken(ok, kind)
    /\ UNCHANGED << call, th, cvars, now, wvars, rvars, avars, helper, clear_first, ptimeout,
                    eff_timeout >>

\* ------------------------------------------- ConfigManager._load_config
\* The keys of env_overrides in the order of the dict literal, and the
\* environment variable each is read from.
OverrideKeys ==
    << "base_url", "browser", "headless", "timeout", "environment",
       "parallel_workers", "video_recording", "screenshot_on_failure" >>
EnvVars ==
    { "BASE_URL", "BROWSER", "HEADLESS", "TIMEOUT", "TEST_ENV",
      "PARALLEL_WORKERS", "VIDEO_RECORDING", "SCREENSHOT_ON_FAILURE" }

\* The strings each variable is tried with when it is set.
EnvStrings(v) ==
    CASE v = "BASE_URL"              -> {"http://env", ""}
      [] v = "BROWSER"               -> {"webkit"}
      [] v = "HEADLESS"              -> {"TRUE", "false"}
      [] v = "TIMEOUT"               -> {"5000", "abc"}
      [] v = "TEST_ENV"              -> {"qa"}
      [] v = "PARALLEL_WORKERS"      -> {"4"}
      [] v = "VIDEO_RECORDING"       -> {"True"}
      [] v = "SCREENSHOT_ON_FAILURE" -> {"false"}
EnvChoices(v) == {Unset} \cup { [set |-> TRUE, s |-> x] : x \in EnvStrings(v) }
Environments ==
    { [ v \in EnvVars |->
          CASE v = "BASE_URL"              -> c1
            [] v = "BROWSER"               -> c2
            [] v = "HEADLESS"              -> c3
            [] v = "TIMEOUT"               -> c4
            [] v = "TEST_ENV"              -> c5
            [] v = "PARALLEL_WORKERS"      -> c6
            [] v = "VIDEO_RECORDING"       -> c7
            [] v = "SCREENSHOT_ON_FAILURE" -> c8 ] :
        c1 \in EnvChoices("BASE_URL"), c2 \in EnvChoices("BROWSER"),
        c3 \in EnvChoices("HEADLESS"), c4 \in EnvChoices("TIMEOUT"),
        c5 \in EnvChoices("TEST_ENV"), c6 \in EnvChoices("PARALLEL_WORKERS"),
        c7 \in EnvChoices("VIDEO_RECORDING"),
        c8 \in EnvChoices("SCREENSHOT_ON_FAILURE") }

\* The documents the YAML file is tried with: each maps some keys to values
\* that differ from everything the environment and the defaults produce.
FileValue(k) ==
    CASE k = "base_url"         -> StrValue("http://file")
      [] k = "browser"          -> StrValue("firefox")
      [] k = "headless"         -> StrValue("no")
      [] k = "timeout"          -> IntValue(100)
      [] k = "environment"      -> StrValue("staging")
      [] k = "parallel_workers" -> IntValue(8)
      [] k = "video_recording"  -> StrValue("yes")
      [] k = "screenshot_on_failure" -> IntValue(0)
      [] OTHER                  -> StrValue(k)
FileKeySets ==
    { {}, {"base_url", "environments"}, {"browser", "timeout", "retries"},
      { OverrideKeys[i] : i \in DOMAIN OverrideKeys } \cup {"environments", "retries"} }
FileDocs ==
    {NoneDoc} \cup { [kind |-> "map", map |-> [k \in ks |-> FileValue(k)]] : ks \in FileKeySets }

\* os.getenv(name) and os.getenv(name, default)
GetenvOrNone(e, name) == IF e[name].set THEN StrValue(e[name].s) ELSE NoneValue
Getenv(e, name, default) == IF e[name].set THEN e[name].s ELSE default

\* str.lower() on the strings that occur
Lower(x) ==
    CASE x = "TRUE"  -> "true"
      [] x = "True"  -> "true"
      [] OTHER       -> x

\* int(str): the integer a decimal string denotes; ValueError for the others
IsIntString(x) == x \in {"30000", "5000", "1", "4"}
IntOf(x) ==
    CASE x = "30000" -> 30000
      [] x = "5000"  -> 5000
      [] x = "1"     -> 1
      [] x = "4"     -> 4

\* The env_overrides dict literal, for an environment in which both int()
\* conversions succeed.
EnvOverrides(e) ==
    [ k \in { OverrideKeys[i] : i \in DOMAIN OverrideKeys } |->
        CASE k = "base_url"         -> GetenvOrNone(e, "BASE_URL")
          [] k = "browser"          -> StrValue(Getenv(e, "BROWSER", "chromium"))
          [] k = "headless"         -> BoolValue(Lower(Getenv(e, "HEADLESS", "true")) = "true")
          [] k = "timeout"          -> IntValue(IntOf(Getenv(e, "TIMEOUT", "30000")))
          [] k = "environment"      -> StrValue(Getenv(e, "TEST_ENV", "dev"))
          [] k = "parallel_workers" -> IntValue(IntOf(Getenv(e, "PARALLEL_WORKERS", "1")))
          [] k = "video_recording"  -> BoolValue(Lower(Getenv(e, "VIDEO_RECORDING", "false")) = "true")
          [] k = "screenshot_on_failure" ->
                 BoolValue(Lower(Getenv(e, "SCREENSHOT_ON_FAILURE", "true")) = "true") ]

\* `if value is not None` in the update loop
OverrideAlways(value) == TRUE
OverrideApplies(value) == value # NoneValue

\* d[key] = value on a dict d
DictSet(d, key, value) ==
    [ k \in DOMAIN d \cup {key} |-> IF k = key THEN value ELSE d[k] ]

\* ConfigManager.__init__ has set self.config = {} and calls _load_config.
InitConfig ==
    /\ call = "config"
    /\ now = 0
    /\ file_exists \in BOOLEAN
    /\ file_doc \in FileDocs
    /\ (~file_exists => file_doc = NoneDoc)
    /\ env \in Environments
    /\ config = EmptyDict /\ env_overrides = EmptyDict
    /\ cpc = "load" /\ ckey = 0 /\ cexc = "none"
    /\ WaitIdle /\ RetryIdle /\ ApiIdle /\ PageIdle /\ ThreadsIdle

\* `if self.config_file.exists(): self.config = yaml.safe_load(f) or {}`
ConfigLoadFile ==
    /\ call = "config" /\ cpc = "load"
    /\ config' = IF file_exists /\ file_doc.kind = "map" /\ file_doc.map # EmptyDict
                   THEN file_doc.map ELSE config
    /\ cpc' = "env"
    /\ UNCHANGED << call, now, th, wvars, rvars, avars, pvars,
                    file_exists, file_doc, env, env_overrides, ckey, cexc >>

\* The env_overrides dict literal is evaluated; int() raises ValueError on a
\* string that is not a number.
ConfigReadEnv ==
    /\ call = "config" /\ cpc = "env"
    /\ IF IsIntString(Getenv(env, "TIMEOUT", "30000"))
            /\ IsIntString(Getenv(env, "PARALLEL_WORKERS", "1"))
         THEN /\ env_overrides' = EnvOverrides(env)
              /\ cpc' = "update" /\ ckey' = 1 /\ cexc' = cexc
         ELSE /\ env_overrides' = env_overrides
              /\ cpc' = "raised" /\ ckey' = ckey /\ cexc' = "ValueError"
    /\ UNCHANGED << call, now, th, wvars, rvars, avars, pvars,
                    file_exists, file_doc, env, config >>

\* One iteration of `for key, value in env_overrides.items()`, or the end of
\* the loop.
ConfigUpdate ==
    /\ call = "config" /\ cpc = "update"
    /\ IF ckey <= Len(OverrideKeys)
         THEN /\ config' = IF OverrideApplies(env_overrides[OverrideKeys[ckey]])
                             THEN DictSet(config, OverrideKeys[ckey],
                                          env_overrides[OverrideKeys[ckey]])
                             ELSE config
              /\ ckey' = ckey + 1
              /\ cpc' = cpc
         ELSE /\ cpc' = "returned"
              /\ UNCHANGED << config, ckey >>
    /\ UNCHANGED << call, now, th, wvars, rvars, avars, pvars,
                    file_exists, file_doc, env, env_overrides, cexc >>

\* ------------------------------------------------------- concurrent calls
\* Several threads call wait_for_condition, or the one wrapper made by a
\* retry_on_failure decoration, at the same time.  The clock is shared; an
\* evaluation, an invocation or a sleep blocks its thread until the clock
\* reaches `until`, and the scheduler may resume the thread later than that.
\* The decorator arguments are closure cells of the one wrapper, equal for all
\* threads and never written.

ConcTimeouts == { 2 * TimeoutStep, 4 * TimeoutStep }
ConcPolls == {1, 2}
ConcDurations == {0, 1}
ConcMaxAttempts == {0, 1, 2}
ConcDelays == {0, 1}
ConcExceptionTuples == { {"Exception"}, {"ConnectionError"} }
ConcPredOutcomes ==
    { [t |-> "true"], [t |-> "false"], [t |-> "raise", kind |-> "ValueError"] }
ConcOpOutcomes ==
    { [t |-> "ok", value |-> "r1"], [t |-> "raise", kind |-> "ConnectionError"],
      [t |-> "raise", kind |-> "ValueError"] }

\* The frame that holds the start_time a thread's call reads and writes: its
\* own, start_time being a local variable of wait_for_condition.
SharedStartCell(t) == "t1"
StartCell(t) == t

ConcInit ==
    /\ call = "conc"
    /\ now = 0
    /\ WaitIdle /\ RetryIdle /\ ApiIdle /\ PageIdle /\ ConfigIdle
    /\ \E ma \in ConcMaxAttempts, de \in ConcDelays, ex \in ConcExceptionTuples :
         th \in [ Threads ->
                    { NewThread("wait", tmo, poll, 0, 0, {}) :
                          tmo \in ConcTimeouts, poll \in ConcPolls }
                    \cup { NewThread("retry", 0, 1, ma, de, ex) } ]

\* The call of thread t starts: `start_time = time.time()`, or the wrapper's
\* loop is entered.
ConcStart(t) ==
    /\ call = "conc" /\ th[t].pc = "new"
    /\ IF th[t].kind = "wait"
         THEN th' = [th EXCEPT ![t].pc = "check", ![t].began = now,
                               ![StartCell(t)].start_time = now]
         ELSE th' = [th EXCEPT ![t].pc = "loop", ![t].began = now]
    /\ UNCHANGED << call, now, wvars, rvars, avars, pvars, cvars >>

\* Thread t tests the while-condition and starts an evaluation, or returns False.
ConcCheck(t) ==
    /\ call = "conc" /\ th[t].kind = "wait" /\ th[t].pc = "check"
    /\ now >= th[t].until
    /\ IF LoopGuard(now - th[StartCell(t)].start_time, th[t].timeout)
         THEN \E out \in ConcPredOutcomes, d \in ConcDurations :
                th' = [th EXCEPT ![t].pc = "evaluating", ![t].pending = out,
                                 ![t].until = now + d, ![t].n = @ + 1,
                                 ![t].checkAt = now]
         ELSE th' = [th EXCEPT ![t].pc = "done", ![t].result = "False",
                               ![t].retAt = now]
    /\ UNCHANGED << call, now, wvars, rvars, avars, pvars, cvars >>

\* The evaluation of thread t ends: `return True`, or the sleep starts.
ConcEvalEnd(t) ==
    /\ call = "conc" /\ th[t].kind = "wait" /\ th[t].pc = "evaluating"
    /\ now >= th[t].until
    /\ IF th[t].pending.t = "true"
         THEN th' = [th EXCEPT ![t].pc = "done", ![t].result = "True",
                               ![t].retAt = now]
         ELSE th' = [th EXCEPT ![t].pc = "check", ![t].slept = @ + 1,
                               ![t].until = now + SleepTicks(th[t].poll_interval, 0)]
    /\ UNCHANGED << call, now, wvars, rvars, avars, pvars, cvars >>

\* Thread t is at the head of the wrapper's for loop: it invokes func, or
\* returns None.
ConcLoop(t) ==
    /\ call = "conc" /\ th[t].kind = "retry" /\ th[t].pc = "loop"
    /\ now >= th[t].until
    /\ IF InRange(th[t].attempt, th[t].max_attempts)
         THEN \E out \in ConcOpOutcomes, d \in ConcDurations :
                th' = [th EXCEPT ![t].pc = "calling", ![t].pending = out,
                                 ![t].until = now + d, ![t].n = @ + 1]
         ELSE th' = [th EXCEPT ![t].pc = "done", ![t].result = "None",
                               ![t].retAt = now]
    /\ UNCHANGED << call, now, wvars, rvars, avars, pvars, cvars >>

\* The invocation of thread t ends: return its value, re-raise, or sleep and
\* go on to the next attempt.
ConcCallEnd(t) ==
    /\ call = "conc" /\ th[t].kind = "retry" /\ th[t].pc = "calling"
    /\ now >= th[t].until
    /\ LET out == th[t].pending IN
       IF out.t = "ok"
         THEN th' = [th EXCEPT ![t].pc = "done", ![t].result = out.value,
                               ![t].retAt = now]
         ELSE IF IsRetryable(out.kind, th[t].exceptions)
                   /\ ~IsLastAttempt(th[t].attempt, th[t].max_attempts)
                THEN th' = [th EXCEPT ![t].pc = "loop", ![t].slept = @ + 1,
                                      ![t].attempt = @ + 1,
                                      ![t].until = now + SleepTicks(th[t].delay, 0)]
                ELSE th' = [th EXCEPT ![t].pc = "done", ![t].result = "raised",
                                      ![t].err = out.kind, ![t].retAt = now]
    /\ UNCHANGED << call, now, wvars, rvars, avars, pvars, cvars >>

\* Time passes while some thread is blocked in an evaluation, an invocation
\* or a sleep.
ConcTick ==
    /\ call = "conc"
    /\ \E t \in Threads : th[t].pc \notin {"new", "done"} /\ th[t].until > now
    /\ now' = now + 1
    /\ UNCHANGED << call, th, cvars, wvars, rvars, avars, pvars >>

ConcNext ==
    \/ \E t \in Threads :
          ConcStart(t) \/ ConcCheck(t) \/ ConcEvalEnd(t) \/ ConcLoop(t) \/ ConcCallEnd(t)
    \/ ConcTick
ConcSpec == ConcInit /\ [][ConcNext]_vars

\* ------------------------------------------------------------ specification
Init == InitWait \/ InitRetry \/ InitApi \/ InitPage \/ InitConfig
Next ==
    \/ WaitCheck \/ WaitEval \/ WaitSleep
    \/ RetryLoop \/ RetryCall \/ RetrySleep
    \/ ApiRequest \/ ApiReturn
    \/ PageStep
    \/ ConfigLoadFile \/ ConfigReadEnv \/ ConfigUpdate
Spec == Init /\ [][Next]_vars

\* The calling thread keeps running: a step that is possible is eventually taken
\* (each invocation of the predicate or function returns, each sleep ends).
LiveSpec == Init /\ [][Next]_vars /\ WF_vars(Next)

\* ------------------------------------------------------------------ claims
\* Elapsed time of the wait call, in ticks, and comparisons of an elapsed time
\* (ticks) with the timeout (milliseconds) in a common unit.
Elapsed == now - start_time
BeforeTimeout(e) == e * MsPerSecond < timeout * TicksPerSecond
AtOrAfterTimeout(e) == e * MsPerSecond >= timeout * TicksPerSecond
WaitReturned == call = "wait" /\ pc \in {"done", "raised"}

\* C1 as stated: when the predicate is first true on evaluation k, the call
\* returns True after exactly k evaluations with total elapsed time < timeout.
C1_AsStated ==
    (call = "wait" /\ timeout > 0 /\ trueAt # 0) =>
        /\ pc = "done" /\ result = "True" /\ evals = trueAt
        /\ BeforeTimeout(Elapsed)

\* C1 amended: when the predicate is first true on evaluation k, the call returns
\* True after exactly k evaluations; evaluation k started before the timeout had
\* elapsed, and the elapsed time at return is that start plus the duration of
\* evaluation k (so it is < timeout when that evaluation takes no time).
C1_SatisfiedAfterK ==
    (call = "wait" /\ trueAt # 0) =>
        /\ pc = "done" /\ result = "True" /\ evals = trueAt
        /\ BeforeTimeout(lastCheckAt - start_time)
        /\ Elapsed = (lastCheckAt - start_time) + lastEvalDur
        /\ (lastEvalDur = 0 => BeforeTimeout(Elapsed))
C1_Witness ==
    /\ call = "wait" /\ pc = "done" /\ result = "True" /\ trueAt = 3 /\ evals = 3
    /\ BeforeTimeout(Elapsed)

\* C2 as stated: when the predicate is never true the call returns False, does
\* not raise, and returns at an elapsed time >= timeout and < timeout + poll_interval.
C2_AsStated ==
    (WaitReturned /\ timeout > 0 /\ trueAt = 0) =>
        /\ pc = "done" /\ result = "False" /\ wraised = "none"
        /\ AtOrAfterTimeout(Elapsed)
        /\ Elapsed * MsPerSecond < timeout * TicksPerSecond + poll_interval * MsPerSecond

\* C2 amended: when the predicate is never true the call does not raise and
\* returns False at an elapsed time >= timeout; for timeout > 0 that time is
\* < timeout + poll_interval + the duration of the last evaluation + the
\* overshoot of the last sleep.
C2_TimedOut ==
    (call = "wait" /\ trueAt = 0) =>
        /\ pc # "raised" /\ wraised = "none" /\ result # "True"
        /\ (pc = "done" =>
              /\ result = "False"
              /\ AtOrAfterTimeout(Elapsed)
              /\ (timeout > 0 =>
                    Elapsed * MsPerSecond <
                        timeout * TicksPerSecond
                        + (poll_interval + lastEvalDur + lastOver) * MsPerSecond))
C2_Witness ==
    /\ call = "wait" /\ pc = "done" /\ result = "False" /\ trueAt = 0
    /\ timeout > 0 /\ evals >= 2 /\ lastEvalDur > 0

\* C3: an evaluation that raises counts as not satisfied and polling goes on: no
\* exception of the predicate ever leaves the call, the call never returns True
\* on a raising evaluation, it returns after one only once the timeout has
\* elapsed, and when every evaluation raised it returns False.
C3_PredicateExceptionsSwallowed ==
    call = "wait" =>
        /\ pc # "raised" /\ wraised = "none"
        /\ (lastOut = "raise" => result # "True")
        /\ (lastOut = "raise" /\ pc = "done" =>
              result = "False" /\ AtOrAfterTimeout(Elapsed) /\ sleeps = evals)
        /\ (pc = "done" /\ raises = evals => result = "False")
C3_Witness ==
    /\ call = "wait" /\ pc = "done" /\ result = "False"
    /\ evals >= 2 /\ raises = evals

\* C9: after the evaluation that returned true nothing is slept: a call that
\* returns True has slept once after each earlier evaluation only, and a
\* predicate true on the first evaluation gives True with one evaluation and
\* no sleep.
C9_NoSleepAfterTrue ==
    (call = "wait" /\ (trueAt # 0 \/ result = "True")) =>
        /\ pc = "done" /\ result = "True"
        /\ sleeps = trueAt - 1
        /\ Elapsed = (lastCheckAt - start_time) + lastEvalDur
        /\ (trueAt = 1 => sleeps = 0 /\ evals = 1)
C9_Witness ==
    /\ call = "wait" /\ pc = "done" /\ result = "True"
    /\ trueAt = 1 /\ evals = 1 /\ sleeps = 0

\* C10: with timeout < poll_interval (compared in one unit) the predicate is
\* evaluated at most once.
C10_AtMostOneEvaluation ==
    (call = "wait" /\ timeout * TicksPerSecond < poll_interval * MsPerSecond) =>
        evals <= 1
C10_Witness ==
    /\ call = "wait" /\ pc = "done" /\ result = "False"
    /\ timeout > 0 /\ timeout * TicksPerSecond < poll_interval * MsPerSecond
    /\ evals = 1 /\ sleeps = 1

\* Facts about the invocations of the wrapped function made so far.
Calls == Len(rhist)
IsSuccess(i) == rhist[i].t = "ok"
IsRetryableFailure(i) == rhist[i].t = "raise" /\ IsInstance(rhist[i].kind, exceptions)
IsFatalFailure(i) == rhist[i].t = "raise" /\ ~IsInstance(rhist[i].kind, exceptions)
AllRetryableFailures == \A i \in 1..Calls : IsRetryableFailure(i)
RetryEnded == call = "retry" /\ rpc \in {"returned", "raised"}

\* C4: with max_attempts >= 1, when attempt k succeeds (the attempts before it
\* having failed with retryable errors) the call returns the result of attempt
\* k after exactly k invocations: no invocation and no sleep follows attempt k.
C4_ReturnsFirstSuccess ==
    (call = "retry" /\ max_attempts >= 1) =>
        \A k \in 1..Calls :
            IsSuccess(k) =>
                /\ \A i \in 1..(k - 1) : IsRetryableFailure(i)
                /\ k <= max_attempts
                /\ Calls = k
                /\ rpc = "returned" /\ retval = rhist[k].value /\ raised = NoError
                /\ rsleeps = k - 1 /\ k \notin sleptAfter
C4_Witness ==
    /\ call = "retry" /\ rpc = "returned" /\ max_attempts = 3 /\ Calls = 3
    /\ IsRetryableFailure(1) /\ IsRetryableFailure(2) /\ IsSuccess(3)
    /\ retval = rhist[3].value

\* C5: when every attempt fails with a retryable error the function is invoked
\* exactly max_attempts times and RetryExhausted is raised to the caller.
C5_RaisesRetryExhausted ==
    (RetryEnded /\ max_attempts >= 1 /\ AllRetryableFailures) =>
        /\ Calls = max_attempts
        /\ rpc = "raised" /\ raised.kind = "RetryExhausted"

\* C6: an error that the `exceptions` tuple does not match, raised by attempt
\* j, leaves the call unchanged at once: j invocations in total, no sleep after
\* it, whatever max_attempts is.
C6_FatalPropagates ==
    call = "retry" =>
        \A j \in 1..Calls :
            IsFatalFailure(j) =>
                /\ Calls = j
                /\ rpc = "raised" /\ raised = [kind |-> rhist[j].kind, attempt |-> j]
                /\ retval = "unset"
                /\ rsleeps = j - 1 /\ j \notin sleptAfter
C6_Witness ==
    /\ call = "retry" /\ rpc = "raised" /\ max_attempts = 3 /\ Calls = 2
    /\ IsRetryableFailure(1) /\ IsFatalFailure(2) /\ raised.attempt = 2

\* C7: sleeps happen only between two consecutive attempts: none before the
\* first attempt, one after each attempt that another attempt follows, none
\* after the last; a success on attempt k has slept k-1 times and an exhausted
\* call max_attempts-1 times.
C7_SleepsOnlyBetweenAttempts ==
    call = "retry" =>
        /\ (Calls = 0 => rsleeps = 0)
        /\ rsleeps = Cardinality(sleptAfter)
        /\ \A i \in sleptAfter : i >= 1 /\ i < max_attempts /\ i <= Calls
        /\ (RetryEnded /\ Calls >= 1 =>
              /\ rsleeps = Calls - 1
              /\ sleptAfter = 1..(Calls - 1))
        /\ (rpc = "returned" /\ Calls >= 1 /\ IsSuccess(Calls) => rsleeps = Calls - 1)
        /\ (rpc = "raised" /\ AllRetryableFailures => rsleeps = max_attempts - 1)
C7_Witness ==
    /\ call = "retry" /\ rpc = "raised" /\ max_attempts = 3 /\ Calls = 3
    /\ AllRetryableFailures /\ delay > 0 /\ rsleeps = 2 /\ sleptAfter = {1, 2}

\* C8: when every attempt fails with a retryable error the error that reaches
\* the caller is the failure of the last attempt (attempt max_attempts); the
\* failures of earlier attempts never reach the caller and nothing is raised
\* while attempts remain.
C8_LastFailureSurfaces ==
    (call = "retry" /\ AllRetryableFailures) =>
        /\ (Calls < max_attempts => rpc # "raised" /\ raised = NoError)
        /\ (rpc = "raised" =>
              /\ Calls = max_attempts
              /\ raised = [kind |-> rhist[max_attempts].kind, attempt |-> max_attempts])
C8_Witness ==
    /\ call = "retry" /\ rpc = "raised" /\ max_attempts = 3 /\ AllRetryableFailures
    /\ rhist[1].kind # rhist[3].kind
    /\ raised = [kind |-> rhist[3].kind, attempt |-> 3]

\* C11 as stated: the call stops at or before its deadline: it is never
\* evaluating, sleeping or returning at a time later than start + timeout.
C11_AsStated ==
    (call = "wait" /\ timeout > 0 /\ pc \in {"check", "eval", "sleep", "done"}) =>
        Elapsed * MsPerSecond <= timeout * TicksPerSecond

\* C11 amended: no predicate evaluation starts at or after the deadline, and a
\* call with timeout > 0 is over by deadline + poll_interval + the duration of
\* its last evaluation + the overshoot of its last sleep; until then it can be
\* evaluating or sleeping later than the deadline.  A call with timeout <= 0
\* neither evaluates nor sleeps.
C11_NoEvaluationStartsAfterDeadline ==
    call = "wait" =>
        /\ (pc = "eval" => BeforeTimeout(Elapsed))
        /\ (evals >= 1 => BeforeTimeout(lastCheckAt - start_time))
        /\ (timeout > 0 =>
              Elapsed * MsPerSecond <
                  timeout * TicksPerSecond
                  + (poll_interval + lastEvalDur + lastOver) * MsPerSecond)
        /\ (timeout <= 0 => evals = 0 /\ sleeps = 0 /\ Elapsed = 0)
C11_Witness ==
    /\ call = "wait" /\ timeout > 0 /\ pc = "check" /\ sleeps >= 2
    /\ lastEvalDur = 0 /\ lastOver = 0
    /\ Elapsed * MsPerSecond > timeout * TicksPerSecond

\* C17 as stated: the deadline is tested after an unsatisfied evaluation and
\* before the sleep: the call does not sleep once the deadline is reached and
\* every sleep is followed by one more evaluation.
C17_AsStated ==
    call = "wait" =>
        /\ (pc = "sleep" => BeforeTimeout(Elapsed))
        /\ (pc = "done" /\ result = "False" /\ evals >= 1 => sleeps = evals - 1)

\* C17 amended: the deadline is tested at the head of each iteration, after the
\* sleep and before the next evaluation: every unsatisfied evaluation is
\* followed by a sleep, also when the deadline has already passed, and once the
\* deadline is reached after a sleep the call returns False without evaluating
\* again, so the last sleep of a timed-out call is not followed by an evaluation.
C17_DeadlineTestedAfterSleep ==
    call = "wait" =>
        /\ (pc = "eval" => BeforeTimeout(Elapsed) /\ sleeps = evals)
        /\ (pc = "sleep" => sleeps = evals - 1 /\ lastOut \in {"false", "raise"})
        /\ (pc = "check" => sleeps = evals)
        /\ (pc = "done" /\ result = "False" =>
              /\ sleeps = evals
              /\ AtOrAfterTimeout(Elapsed)
              /\ lastOut # "true")
C17_Witness ==
    /\ call = "wait" /\ pc = "done" /\ result = "False" /\ timeout > 0
    /\ evals >= 2 /\ sleeps = evals
    /\ AtOrAfterTimeout((lastCheckAt - start_time) + lastEvalDur)

\* C18: an invocation in flight is never cut short.  The deadline is examined
\* only before an evaluation starts, so an evaluation that started before the
\* deadline runs for its whole duration and its true result gives True however
\* late it ends; the wrapper examines the attempt count only before an
\* invocation, whose result or error is then honoured.
C18_NoPreemption ==
    /\ call = "wait" =>
          /\ (evals >= 1 => BeforeTimeout(lastCheckAt - start_time))
          /\ (evals >= 1 /\ pc # "eval" =>
                Elapsed >= (lastCheckAt - start_time) + lastEvalDur)
          /\ (lastOut = "true" =>
                pc = "done" /\ result = "True"
                /\ Elapsed = (lastCheckAt - start_time) + lastEvalDur)
    /\ call = "retry" =>
          /\ (rpc = "call" => attempt < max_attempts /\ Len(rhist) = attempt)
          /\ (Len(rhist) >= 1 /\ rhist[Len(rhist)].t = "ok" =>
                rpc = "returned" /\ retval = rhist[Len(rhist)].value)
C18_Witness ==
    /\ call = "wait" /\ pc = "done" /\ result = "True" /\ timeout > 0
    /\ lastEvalDur = MaxEvalDur
    /\ Elapsed * MsPerSecond >= timeout * TicksPerSecond + MsPerSecond

\* C19: a call that has returned gave True exactly when some evaluation returned
\* a truthy value, and then that evaluation is the last one performed and it
\* started strictly before the deadline; it gave False exactly when every
\* evaluation performed returned falsy or raised.
C19_ResultSound ==
    (call = "wait" /\ pc = "done") =>
        /\ result \in {"True", "False"}
        /\ (result = "True" <=> trueAt # 0)
        /\ (result = "True" =>
              /\ trueAt = evals /\ lastOut = "true"
              /\ BeforeTimeout(lastCheckAt - start_time))
        /\ (result = "False" <=> trueAt = 0)
        /\ (result = "False" => lastOut \in {"none", "false", "raise"})
C19_Witness ==
    /\ call = "wait" /\ pc = "done" /\ result = "True" /\ trueAt = 2 /\ evals = 2
    /\ raises = 1

\* C20: with timeout <= 0 the predicate is never evaluated and nothing is
\* slept; the call returns False.
C20_NonPositiveTimeout ==
    (call = "wait" /\ timeout <= 0) =>
        /\ evals = 0 /\ sleeps = 0 /\ trueAt = 0
        /\ pc \in {"check", "done"}
        /\ (pc = "done" => result = "False" /\ Elapsed = 0)
C20_Witness ==
    /\ call = "wait" /\ timeout = 0 /\ pc = "done" /\ result = "False"
    /\ evals = 0 /\ sleeps = 0

\* C13: a predicate that is None (not callable) makes the call raise to its
\* caller on the first evaluation: one attempted evaluation, no sleep, no
\* polling until the deadline and no False result.
C13_MalformedPredicatePropagates ==
    (call = "wait" /\ condition_func = "None" /\ evals >= 1) =>
        /\ pc = "raised" /\ wraised = "TypeError"
        /\ evals = 1 /\ sleeps = 0 /\ result = "none"

\* C12: no loop runs forever: every call of wait_for_condition eventually
\* returns True or False and every call of a retry_on_failure wrapper eventually
\* returns or raises.
C12_EveryCallEnds ==
    /\ (call = "wait") ~> (pc = "done" /\ result \in {"True", "False"})
    /\ (call = "retry") ~> (rpc \in {"returned", "raised"})
C12_Witness ==
    /\ call = "wait" /\ pc = "done" /\ result = "False" /\ timeout > 0
    /\ evals >= 3 /\ evals < MaxEvals /\ poll_interval = 1

\* The cap MaxEvals on followed evaluations is never what stops a call.
EvalsBelowCap == call = "wait" => (evals < MaxEvals \/ pc # "eval")

\* C15: get and post of BaseAPI and PublicAPI return the response only when
\* its status is not an error status: for a 4xx or 5xx status they raise and
\* return nothing, so a response the caller receives is never a 4xx/5xx one.
C15_ErrorStatusRaises ==
    call = "api" =>
        /\ (apc = "returned" =>
              /\ api_ret = api_status /\ api_ret \in Statuses
              /\ api_ret < 400 /\ api_exc = "none")
        /\ (apc \in {"returned", "raised"} /\ api_status >= 400 =>
              apc = "raised" /\ api_exc = "HTTPError" /\ api_ret = 0)
        /\ (apc = "raised" => api_ret = 0)
C15_Witness ==
    /\ call = "api" /\ api_client = "PublicAPI" /\ api_method = "post"
    /\ apc = "raised" /\ api_status = 503 /\ api_exc = "HTTPError" /\ api_ret = 0

\* C16: safe_click and safe_fill never raise for a failing driver step: they
\* return True exactly when every driver step of the call succeeded, and False
\* as soon as one step raises, the steps after it not being executed.
C16_SafeHelpersReturnBool ==
    call = "page" =>
        /\ ppc # "raised" /\ pexc = "none"
        /\ (ppc = "returned" =>
              /\ pret \in {"True", "False"}
              /\ (pret = "True" <=>
                    pfailed = "none" /\ pdone = DriverSteps(helper, clear_first))
              /\ (pret = "False" <=> pfailed # "none"))
        /\ (pfailed # "none" =>
              /\ ppc = "returned" /\ pret = "False"
              /\ Len(pdone) < Len(DriverSteps(helper, clear_first))
              /\ pdone = SubSeq(DriverSteps(helper, clear_first), 1, Len(pdone))
              /\ pfailed = DriverSteps(helper, clear_first)[Len(pdone) + 1])
C16_Witness ==
    /\ call = "page" /\ helper = "safe_fill" /\ clear_first = TRUE
    /\ ppc = "returned" /\ pret = "False"
    /\ pfailed = "clear" /\ pdone = << "locator", "wait_for" >>

\* C14: under every interleaving each concurrent call behaves as it does alone,
\* governed by its own start time, its own counters and its own outcomes only:
\* a wait call starts every evaluation before its own deadline, returns True
\* exactly on its own truthy evaluation and False only once its own timeout has
\* elapsed, with one sleep after each unsatisfied evaluation; a wrapper call
\* makes at most max_attempts invocations, one sleep between two of them, and
\* ends with the value or the error of its own last invocation.
ThreadAlone(r) ==
    /\ r.kind = "wait" =>
          /\ (r.n >= 1 =>
                (r.checkAt - r.began) * MsPerSecond < r.timeout * TicksPerSecond)
          /\ (r.timeout * TicksPerSecond < r.poll_interval * MsPerSecond => r.n <= 1)
          /\ (r.pc = "check" => r.slept = r.n)
          /\ (r.pc = "evaluating" => r.slept = r.n - 1)
          /\ (r.pc = "done" =>
                /\ r.result \in {"True", "False"}
                /\ (r.result = "True" <=> r.pending.t = "true")
                /\ (r.result = "True" => r.slept = r.n - 1)
                /\ (r.result = "False" =>
                      /\ r.slept = r.n
                      /\ (r.retAt - r.began) * MsPerSecond
                            >= r.timeout * TicksPerSecond))
    /\ r.kind = "retry" =>
          /\ r.n <= r.max_attempts
          /\ r.attempt = r.slept
          /\ (r.pc = "loop" => r.n = r.attempt)
          /\ (r.pc = "calling" => r.n = r.attempt + 1)
          /\ (r.pc = "done" =>
                /\ (r.result = "None" <=> r.n = 0)
                /\ (r.n >= 1 => r.slept = r.n - 1)
                /\ (r.result = "raised" <=> r.pending.t = "raise")
                /\ (r.result = "raised" =>
                      /\ r.err = r.pending.kind
                      /\ (IsInstance(r.err, r.exceptions) => r.n = r.max_attempts))
                /\ (r.pending.t = "ok" => r.result = r.pending.value))
C14_CallsDoNotInterfere == call = "conc" => \A t \in Threads : ThreadAlone(th[t])
C14_Witness ==
    /\ call = "conc"
    /\ th["t1"].kind = "wait" /\ th["t2"].kind = "wait"
    /\ th["t1"].pc = "done" /\ th["t2"].pc = "done"
    /\ th["t1"].began < th["t2"].began
    /\ th["t2"].began < th["t1"].retAt
    /\ th["t1"].n >= 2 /\ th["t2"].n >= 2
    /\ th["t1"].result = "False" /\ th["t2"].result = "True"

\* C21: a wrapper decorated with max_attempts <= 0 never invokes the function,
\* never sleeps and returns None without raising; for every max_attempts the
\* function is invoked at most max(max_attempts, 0) times, the sleeps never
\* outnumber the invocations, and a call that made at least one invocation
\* ends with strictly fewer sleeps than invocations.
MaxOf(a, b) == IF a >= b THEN a ELSE b
C21_InvocationsBounded ==
    call = "retry" =>
        /\ (max_attempts <= 0 =>
              /\ Calls = 0 /\ rsleeps = 0
              /\ rpc \in {"loop", "returned"}
              /\ raised = NoError
              /\ (rpc = "returned" => retval = "None"))
        /\ Calls <= MaxOf(max_attempts, 0)
        /\ rsleeps <= Calls
        /\ (RetryEnded /\ Calls >= 1 => rsleeps < Calls)
C21_Witness ==
    /\ call = "retry" /\ max_attempts = -1
    /\ rpc = "returned" /\ retval = "None" /\ Calls = 0 /\ rsleeps = 0

\* The number ceil((timeout/1000) / poll_interval) over the model's units:
\* ceil(a / b) for b > 0, and the value for the call's arguments.
CeilDiv(a, b) == -((-a) \div b)
ExpectedEvaluations ==
    CeilDiv(timeout * TicksPerSecond, poll_interval * MsPerSecond)

\* C22 as stated: with instantaneous evaluations and a never-true predicate the
\* k-th evaluation happens at elapsed time (k-1) * poll_interval, before the
\* deadline, and the call ends after exactly
\* ceil((timeout/1000) / poll_interval) evaluations.
C22_AsStated ==
    (call = "wait" /\ instant /\ trueAt = 0) =>
        /\ (pc = "eval" =>
              /\ Elapsed = evals * poll_interval
              /\ BeforeTimeout(Elapsed))
        /\ (pc = "done" => evals = ExpectedEvaluations)

\* C22 amended: timeout is compared in milliseconds and poll_interval slept in
\* seconds, and no evaluation starts at or after the deadline; with a
\* never-true predicate the number of evaluations is at most
\* ceil((timeout/1000) / poll_interval), and when moreover the evaluations are
\* instantaneous and every sleep lasts exactly poll_interval, the k-th
\* evaluation happens at elapsed time (k-1) * poll_interval and the call ends
\* after exactly that number of evaluations.
C22_PollingSchedule ==
    (call = "wait" /\ trueAt = 0) =>
        /\ (pc = "eval" => BeforeTimeout(Elapsed))
        /\ (timeout > 0 => evals <= ExpectedEvaluations)
        /\ (timeout <= 0 => evals = 0)
        /\ (instant /\ punctual =>
              /\ (pc = "eval" => Elapsed = evals * poll_interval)
              /\ (pc = "done" /\ timeout > 0 => evals = ExpectedEvaluations))
C22_Witness ==
    /\ call = "wait" /\ pc = "done" /\ result = "False" /\ trueAt = 0
    /\ instant /\ punctual
    /\ evals >= 2 /\ evals = ExpectedEvaluations
    /\ evals * poll_interval * MsPerSecond > timeout * TicksPerSecond

\* What the file contributed to self.config, and the keys the environment
\* always decides.
FileMap == IF file_exists /\ file_doc.kind = "map" THEN file_doc.map ELSE EmptyDict
AlwaysOverridden ==
    { "browser", "headless", "timeout", "environment", "parallel_workers",
      "video_recording", "screenshot_on_failure" }

\* C23: after _load_config has returned, each of browser, headless, timeout,
\* environment, parallel_workers, video_recording and screenshot_on_failure
\* holds the value derived from its environment variable or its default,
\* whatever the file held for it; base_url holds the value of BASE_URL when
\* that is set and otherwise is exactly as in the file (present with the
\* file's value, or absent); every other key is exactly as in the file.
C23_EnvironmentOverridesFile ==
    (call = "config" /\ cpc = "returned") =>
        /\ \A k \in AlwaysOverridden :
              /\ k \in DOMAIN config
              /\ config[k] = EnvOverrides(env)[k]
              /\ config[k] # NoneValue
        /\ config["browser"] =
              (IF env["BROWSER"].set THEN StrValue(env["BROWSER"].s)
                                     ELSE StrValue("chromium"))
        /\ config["headless"] =
              BoolValue(~env["HEADLESS"].set \/ env["HEADLESS"].s \in {"true", "TRUE", "True"})
        /\ (~env["TIMEOUT"].set => config["timeout"] = IntValue(30000))
        /\ (env["BASE_URL"].set =>
              /\ "base_url" \in DOMAIN config
              /\ config["base_url"] = StrValue(env["BASE_URL"].s))
        /\ (~env["BASE_URL"].set =>
              /\ ("base_url" \in DOMAIN config <=> "base_url" \in DOMAIN FileMap)
              /\ ("base_url" \in DOMAIN FileMap =>
                    config["base_url"] = FileMap["base_url"]))
        /\ DOMAIN config \ (AlwaysOverridden \cup {"base_url"})
              = DOMAIN FileMap \ (AlwaysOverridden \cup {"base_url"})
        /\ \A k \in DOMAIN FileMap \ (AlwaysOverridden \cup {"base_url"}) :
              config[k] = FileMap[k]
C23_Witness ==
    /\ call = "config" /\ cpc = "returned"
    /\ ~env["BASE_URL"].set /\ env["HEADLESS"].set /\ ~env["BROWSER"].set
    /\ AlwaysOverridden \cup {"base_url", "retries"} \subseteq DOMAIN FileMap
    /\ config["base_url"] = FileMap["base_url"]
    /\ config["browser"] = StrValue("chromium")
    /\ config["browser"] # FileMap["browser"]
    /\ config["retries"] = FileMap["retries"]
====
